---- MODULE Spec2Model ----
(***************************************************************************)
(* Model of the mermaid MCP adapter (src/index.ts): the two tool handlers  *)
(* render_mermaid and dryrun_mermaid, generateDiagram, render, the         *)
(* temporary directory they stage files in, and the process-wide           *)
(* process.stdout.write / process.stderr.write slots.                      *)
(*                                                                         *)
(* Node runs the handlers on one thread: the code between two awaits is    *)
(* atomic, and each await is a point where other calls' continuations may  *)
(* run.  One action below is one such segment together with the            *)
(* asynchronous operation it resumes from.                                 *)
(***************************************************************************)
EXTENDS Integers, Sequences, FiniteSets, TLC

(* ------------------------------ bounds --------------------------------- *)
\* Number of tool calls the client issues.
NCalls == 2
\* The clock (new Date().getTime()) takes the values 0..MaxTime.
MaxTime == 1
\* Longest diagram text enumerated for the extraction check.
MaxLen == 9

Calls == 1..NCalls

(* ------------------------------ strings -------------------------------- *)
\* A text is a sequence of characters.  "b" is a backtick, " " stands for any
\* white space or line terminator, and "M" for the seven letters of the word
\* mermaid (which holds no backtick and does not overlap itself, so it
\* behaves as one character in every search here).  Anywhere but right
\* after three backticks "M" is an ordinary character, so the enumerated
\* texts need no fourth letter: what follows a fence matters to the code
\* only when it completes the marker.  The sample diagrams use "x" as well.
Alphabet == {"b", "M", " "}

\* The opening marker, three backticks and the word mermaid (index.ts:57,58).
MermaidMarker == <<"b", "b", "b", "M">>
\* The closing fence, three backticks (index.ts:58).
Fence == <<"b", "b", "b">>

\* s has pat at position i (1-based).
MatchAt(s, pat, i) ==
    /\ i >= 1
    /\ i + Len(pat) - 1 <= Len(s)
    /\ \A k \in 1..Len(pat) : s[i + k - 1] = pat[k]

\* String.prototype.indexOf: the least position of pat in s, 0 when absent.
IndexOf(s, pat) ==
    IF \E i \in 1..Len(s) : MatchAt(s, pat, i)
    THEN CHOOSE i \in 1..Len(s) :
            /\ MatchAt(s, pat, i)
            /\ \A j \in 1..(i - 1) : ~MatchAt(s, pat, j)
    ELSE 0

\* String.prototype.includes.
Includes(s, pat) == IndexOf(s, pat) # 0

\* String.prototype.split with a non-empty separator: cut at the leftmost
\* occurrence, continue after the separator.
RECURSIVE Split(_, _)
Split(s, sep) ==
    LET i == IndexOf(s, sep) IN
    IF i = 0 THEN <<s>>
    ELSE <<SubSeq(s, 1, i - 1)>> \o Split(SubSeq(s, i + Len(sep), Len(s)), sep)

IsSpace(ch) == ch = " "

\* String.prototype.trim: drop white space at both ends.
RECURSIVE TrimStart(_)
TrimStart(s) ==
    IF s # <<>> /\ IsSpace(Head(s)) THEN TrimStart(Tail(s)) ELSE s

RECURSIVE TrimEnd(_)
TrimEnd(s) ==
    IF s # <<>> /\ IsSpace(s[Len(s)]) THEN TrimEnd(SubSeq(s, 1, Len(s) - 1)) ELSE s

Trim(s) == TrimEnd(TrimStart(s))

\* A plausible slip: the call of trim left out.
ExtractNoTrim(diagram, isMarkdown) ==
    IF isMarkdown /\ Includes(diagram, MermaidMarker)
    THEN Split(Split(diagram, MermaidMarker)[2], Fence)[1]
    ELSE diagram

\* index.ts:55-60: the text generateDiagram writes to the input file.
\* The indices [1] and [0] of JavaScript are the second and first pieces.
Extract(diagram, isMarkdown) ==
    IF isMarkdown
    THEN IF Includes(diagram, MermaidMarker)
         THEN Trim(Split(Split(diagram, MermaidMarker)[2], Fence)[1])
         ELSE diagram
    ELSE diagram

(* ------------------------- values and conversions ---------------------- *)
Tools == {"render_mermaid", "dryrun_mermaid"}
\* z.enum(["svg", "png", "pdf"]) (index.ts:86,137).
Formats == {"svg", "png", "pdf"}

\* The diagram texts the client sends in the concurrency model: a bare
\* definition and the same definition inside a fenced block.
SampleDiagrams == { <<"x">>, MermaidMarker \o <<"x">> \o Fence }

\* All diagram texts of at most MaxLen characters.
AllDiagrams == UNION { [1..n -> Alphabet] : n \in 0..MaxLen }

\* A plausible slip: a fixed staging name, the key left out.
InputPathFixed(timestamp) ==
    [dir |-> "tmpdir", prefix |-> "input-", key |-> 0, ext |-> "mmd"]

\* index.ts:51: join(os.tmpdir(), "input-<timestamp>.mmd").
InputPath(timestamp) ==
    [dir |-> "tmpdir", prefix |-> "input-", key |-> timestamp, ext |-> "mmd"]

\* index.ts:52: join(os.tmpdir(), "output-<timestamp>") + "." + format.
OutputPath(timestamp, format) ==
    [dir |-> "tmpdir", prefix |-> "output-", key |-> timestamp, ext |-> format]

\* index.ts:61: the bytes fs.writeFile(..., 'utf8') stores for a text.
Utf8Encode(text) == [enc |-> "utf8", text |-> text]

\* The artifact the external engine produces from the bytes of an input file
\* in a format (index.ts:29-36).
Artifact(format, inputBytes) == [artifact |-> format, of |-> inputBytes.text]

\* index.ts:99,109: Buffer.toString('base64').
Base64(bytes) == [enc |-> "base64", bytes |-> bytes]
\* index.ts:117: Buffer.toString('utf8').
Utf8Decode(bytes) == [enc |-> "utf8-decoded", bytes |-> bytes]
\* index.ts:107: the template string "<timestamp>.pdf".
PdfUri(timestamp) == [name |-> timestamp, ext |-> "pdf"]
\* index.ts:147,155: JSON.stringify.
JsonStringify(value) == [json |-> value]

\* Thrown values: an Error with its message, or a value that is no Error.
Error(message) == [isError |-> TRUE, message |-> message]
\* Reading .message off such a value gives undefined.
NotAnError == [isError |-> FALSE, message |-> "undefined"]
NoError == [isError |-> FALSE, message |-> "none"]

\* index.ts:123: the prefix of render_mermaid's error message.
ErrorPrefix == "diagram-generation-error: "
\* index.ts:122: the placeholder render_mermaid uses for a non-Error.
UnknownErrorPlaceholder == "unknown-error"
\* index.ts:151: the placeholder dryrun_mermaid uses for a non-Error.
DryrunPlaceholder == "Occurred an error"

\* process.stdout.write / process.stderr.write hold function values: the
\* stream's real write, or one of the closures render creates (a fresh pair
\* per call of render).
RealWrite(stream) == [fn |-> "write", stream |-> stream, by |-> 0]
NoOp(stream, c) == [fn |-> "noop", stream |-> stream, by |-> c]

NoReply == [kind |-> "none"]
NoBytes == [enc |-> "none"]
NoPath == [dir |-> "none"]
NoRequest == [tool |-> "none"]

(* ------------------------------- state --------------------------------- *)
VARIABLES
    now,          \* the clock new Date().getTime() reads
    pc,           \* per call: the await it is suspended at
    req,          \* per call: the arguments {tool, diagram, format, isMarkdown}
    loc,          \* per call: the locals of the handler, generateDiagram, render
    pending,      \* per call: the fs.unlink operations still in flight
    unlinkCalls,  \* per call: how many times fs.unlink was called on each path
    reply,        \* per call: what the handler returned or threw
    fs,           \* the temporary directory: path -> [data, owner]
    touched,      \* pairs <<a, o>>: a's file operation hit a file o had written
    stdoutWrite,  \* process.stdout.write
    stderrWrite   \* process.stderr.write

vars == <<now, pc, req, loc, pending, unlinkCalls, reply, fs, touched,
          stdoutWrite, stderrWrite>>

NoLocals ==
    [timestamp |-> 0, inputPath |-> NoPath, outputPath |-> NoPath,
     content |-> <<>>, originalStdout |-> RealWrite("stdout"),
     originalStderr |-> RealWrite("stderr"), output |-> NoBytes,
     failedAt |-> "none", thrown |-> NoError]

Init ==
    /\ now = 0
    /\ pc = [c \in Calls |-> "idle"]
    /\ req = [c \in Calls |-> NoRequest]
    /\ loc = [c \in Calls |-> NoLocals]
    /\ pending = [c \in Calls |-> {}]
    /\ unlinkCalls = [c \in Calls |-> [input |-> 0, output |-> 0]]
    /\ reply = [c \in Calls |-> NoReply]
    /\ fs = <<>>
    /\ touched = {}
    /\ stdoutWrite = RealWrite("stdout")
    /\ stderrWrite = RealWrite("stderr")

(* ---------------------------- file system ------------------------------ *)
Exists(path) == path \in DOMAIN fs

\* The directory after path is created or overwritten by call c.
WriteFile(path, data, c) ==
    [p \in (DOMAIN fs) \cup {path} |->
        IF p = path THEN [data |-> data, owner |-> c] ELSE fs[p]]

\* The directory after path is removed.
RemoveFile(path) == [p \in (DOMAIN fs) \ {path} |-> fs[p]]

\* What call c's operation on path adds to touched: the file there, if any,
\* was written by another call.
Touch(c, path) ==
    IF Exists(path) /\ fs[path].owner # c
    THEN touched \cup {<<c, fs[path].owner>>}
    ELSE touched

(* --------------------------- the two handlers -------------------------- *)
\* A plausible slip: the URI built from a second reading of the clock.
ShapeFreshUri(format, output, timestamp) ==
    IF format = "png"
    THEN <<[type |-> "image", mimeType |-> "image/png", data |-> Base64(output)]>>
    ELSE IF format = "pdf"
    THEN <<[type |-> "resource",
            resource |-> [uri |-> PdfUri(now), mimeType |-> "application/pdf",
                          blob |-> Base64(output)]]>>
    ELSE <<[type |-> "text", text |-> Utf8Decode(output)]>>

\* index.ts:94-120: the content render_mermaid returns for an artifact.
Shape(format, output, timestamp) ==
    IF format = "png"
    THEN <<[type |-> "image", mimeType |-> "image/png", data |-> Base64(output)]>>
    ELSE IF format = "pdf"
    THEN <<[type |-> "resource",
            resource |-> [uri |-> PdfUri(timestamp), mimeType |-> "application/pdf",
                          blob |-> Base64(output)]]>>
    ELSE <<[type |-> "text", text |-> Utf8Decode(output)]>>

\* A plausible slip: the message read off the thrown value without the
\* instanceof test.
RenderCatchNoTest(error) ==
    [kind |-> "error", message |-> <<ErrorPrefix, error.message>>]

\* index.ts:121-124: render_mermaid's catch block throws a new Error.
RenderCatch(error) ==
    [kind |-> "error",
     message |-> <<ErrorPrefix,
                   IF error.isError THEN error.message ELSE UnknownErrorPlaceholder>>]

\* A plausible slip: a catch block that rethrows what is no Error.
DryrunCatchRethrow(error) ==
    IF error.isError
    THEN [kind |-> "result",
          content |-> <<[type |-> "text",
                         text |-> JsonStringify([status |-> "failed",
                                                 message |-> error.message])]>>]
    ELSE [kind |-> "error", message |-> <<"", DryrunPlaceholder>>]

\* index.ts:150-158: dryrun_mermaid's catch block returns a text block.
DryrunCatch(error) ==
    [kind |-> "result",
     content |-> <<[type |-> "text",
                    text |-> JsonStringify(
                        [status |-> "failed",
                         message |-> IF error.isError THEN error.message
                                     ELSE DryrunPlaceholder])]>>]

\* index.ts:144-149: dryrun_mermaid's reply when generateDiagram returned.
DryrunOk ==
    [kind |-> "result",
     content |-> <<[type |-> "text", text |-> JsonStringify([status |-> "ok"])]>>]

\* What the handler of tool replies when generateDiagram returned output.
HandlerReturn(tool, format, output, timestamp) ==
    IF tool = "render_mermaid"
    THEN [kind |-> "result", content |-> Shape(format, output, timestamp)]
    ELSE DryrunOk

\* What the handler of tool replies when generateDiagram threw error.
HandlerCatch(tool, error) ==
    IF tool = "render_mermaid" THEN RenderCatch(error) ELSE DryrunCatch(error)

\* A plausible slip: the restore placed after the await instead of in a
\* finally block, so that it is skipped when the engine throws.
RestoredNoFinally(captured, current, threw) ==
    IF threw THEN current ELSE captured

\* index.ts:37-41: what the finally block of render leaves in a stream's
\* write slot, given the function captured on entry and the one in the slot.
Restored(captured, current, threw) == captured

(* ------------------------------- actions ------------------------------- *)
\* The clock advances.  It is read only when a handler is entered, so its
\* later values matter only while some call has yet to arrive.
Tick ==
    /\ now < MaxTime
    /\ \E c \in Calls : pc[c] = "idle"
    /\ now' = now + 1
    /\ UNCHANGED <<pc, req, loc, pending, unlinkCalls, reply, fs, touched,
                   stdoutWrite, stderrWrite>>

\* index.ts:89-92 / 140-143 and 50-61: the handler of r.tool is called with
\* the arguments r, reads the clock, builds the paths and the content and
\* calls fs.writeFile.
Start(c, r) ==
    /\ pc[c] = "idle"
    /\ pc' = [pc EXCEPT ![c] = "write"]
    /\ req' = [req EXCEPT ![c] = r]
    /\ loc' = [loc EXCEPT ![c] =
                 [@ EXCEPT !.timestamp = now,
                           !.inputPath = InputPath(now),
                           !.outputPath = OutputPath(now, r.format),
                           !.content = Extract(r.diagram, r.isMarkdown)]]
    /\ UNCHANGED <<now, pending, unlinkCalls, reply, fs, touched,
                   stdoutWrite, stderrWrite>>

\* The locals of a call whose handler has replied: the key, the two paths it
\* staged and the artifact it read are kept to name them afterwards, with the
\* step generateDiagram failed at and the value it threw there.
Returned(l, step, error) ==
    [NoLocals EXCEPT !.timestamp = l.timestamp, !.inputPath = l.inputPath,
                     !.outputPath = l.outputPath, !.output = l.output,
                     !.failedAt = step, !.thrown = error]

\* generateDiagram threw error at step: nothing after the failing await runs
\* (index.ts:61-74 has no finally), the handler's catch block replies.
Fail(c, step, error) ==
    /\ pc' = [pc EXCEPT ![c] = "done"]
    /\ loc' = [loc EXCEPT ![c] = Returned(@, step, error)]
    /\ reply' = [reply EXCEPT ![c] = HandlerCatch(req[c].tool, error)]

\* index.ts:61 then 63, 20-29: fs.writeFile settles.  When it succeeded,
\* render captures the two write functions, installs the no-ops and calls
\* the engine.
WriteDone(c) ==
    /\ pc[c] = "write"
    /\ \/ /\ fs' = WriteFile(loc[c].inputPath, Utf8Encode(loc[c].content), c)
          /\ touched' = Touch(c, loc[c].inputPath)
          /\ loc' = [loc EXCEPT ![c] = [@ EXCEPT !.originalStdout = stdoutWrite,
                                                 !.originalStderr = stderrWrite]]
          /\ stdoutWrite' = NoOp("stdout", c)
          /\ stderrWrite' = NoOp("stderr", c)
          /\ pc' = [pc EXCEPT ![c] = "render"]
          /\ UNCHANGED reply
       \/ /\ Fail(c, "write", Error("EACCES"))
          /\ UNCHANGED <<fs, touched, stdoutWrite, stderrWrite>>
    /\ UNCHANGED <<now, req, pending, unlinkCalls>>

\* index.ts:29-41 then 66: the engine settles and the finally block of
\* render runs.  The engine reads the input file and writes the output file,
\* or throws: the input file is gone, the diagram or the browser fails (an
\* Error), or it rejects with a value that is no Error.
RunDone(c) ==
    /\ pc[c] = "render"
    /\ \E outcome \in {"ok", "Error", "other"} :
         LET missing == ~Exists(loc[c].inputPath)
             threw   == missing \/ outcome # "ok"
             error   == IF missing THEN Error("ENOENT")
                        ELSE IF outcome = "Error" THEN Error("render failed")
                        ELSE NotAnError
         IN  /\ stdoutWrite' = Restored(loc[c].originalStdout, stdoutWrite, threw)
             /\ stderrWrite' = Restored(loc[c].originalStderr, stderrWrite, threw)
             /\ IF threw
                THEN /\ Fail(c, "render", error)
                     /\ UNCHANGED <<fs, touched>>
                ELSE /\ fs' = WriteFile(loc[c].outputPath,
                             Artifact(req[c].format, fs[loc[c].inputPath].data), c)
                     /\ touched' =
                          Touch(c, loc[c].inputPath) \cup Touch(c, loc[c].outputPath)
                     /\ pc' = [pc EXCEPT ![c] = "read"]
                     /\ UNCHANGED <<loc, reply>>
    /\ UNCHANGED <<now, req, pending, unlinkCalls>>

\* index.ts:66 then 69-72: fs.readFile settles.  When it succeeded, both
\* fs.unlink operations are started.
ReadDone(c) ==
    /\ pc[c] = "read"
    /\ \E outcome \in {"ok", "Error"} :
         IF Exists(loc[c].outputPath) /\ outcome = "ok"
         THEN /\ loc' = [loc EXCEPT ![c].output = fs[loc[c].outputPath].data]
              /\ touched' = Touch(c, loc[c].outputPath)
              /\ pending' = [pending EXCEPT ![c] = {"input", "output"}]
              /\ unlinkCalls' = [unlinkCalls EXCEPT ![c] =
                                   [input |-> @.input + 1, output |-> @.output + 1]]
              /\ pc' = [pc EXCEPT ![c] = "cleanup"]
              /\ UNCHANGED reply
         ELSE /\ Fail(c, "read",
                      IF Exists(loc[c].outputPath) THEN Error("EIO") ELSE Error("ENOENT"))
              /\ UNCHANGED <<touched, pending, unlinkCalls>>
    /\ UNCHANGED <<now, req, fs, stdoutWrite, stderrWrite>>

\* index.ts:69-74 then 94-120 / 144-149: one fs.unlink settles: the file is
\* removed, or it is already gone and the rejection is swallowed.  When both
\* have settled generateDiagram returns output and the handler replies.
UnlinkDone(c, which) ==
    /\ pc[c] = "cleanup"
    /\ which \in pending[c]
    /\ LET path == IF which = "input" THEN loc[c].inputPath ELSE loc[c].outputPath
       IN  /\ fs' = RemoveFile(path)
           /\ touched' = Touch(c, path)
    /\ pending' = [pending EXCEPT ![c] = @ \ {which}]
    /\ IF pending[c] = {which}
       THEN /\ pc' = [pc EXCEPT ![c] = "done"]
            /\ loc' = [loc EXCEPT ![c] = Returned(@, "none", NoError)]
            /\ reply' = [reply EXCEPT ![c] =
                  HandlerReturn(req[c].tool, req[c].format, loc[c].output,
                                loc[c].timestamp)]
       ELSE UNCHANGED <<pc, loc, reply>>
    /\ UNCHANGED <<now, req, unlinkCalls, stdoutWrite, stderrWrite>>

(* ---------------------------- specifications --------------------------- *)
\* Every request the schema of the two tools admits over the sample diagrams.
AllRequests ==
    [tool : Tools, diagram : SampleDiagrams, format : Formats, isMarkdown : BOOLEAN]

\* The request of the calls whose arguments play no part.
PlainRequest ==
    [tool |-> "render_mermaid", diagram |-> <<"x">>, format |-> "svg",
     isMarkdown |-> FALSE]

\* NCalls calls of render_mermaid with the same arguments, interleaved in
\* every way: the model of render and the two stream slots.
Next ==
    \/ Tick
    \/ \E c \in Calls : Start(c, PlainRequest)
    \/ \E c \in Calls : WriteDone(c)
    \/ \E c \in Calls : RunDone(c)
    \/ \E c \in Calls : ReadDone(c)
    \/ \E c \in Calls, which \in {"input", "output"} : UnlinkDone(c, which)

Spec == Init /\ [][Next]_vars

\* Two calls interleaved in every way: the first with any request, the
\* second with the plain one.
Pair == <<1, 2>>
First == Pair[1]
Second == Pair[2]

NextPair ==
    \/ Tick
    \/ \E r \in AllRequests : Start(First, r)
    \/ Start(Second, PlainRequest)
    \/ \E c \in {First, Second} : WriteDone(c)
    \/ \E c \in {First, Second} : RunDone(c)
    \/ \E c \in {First, Second} : ReadDone(c)
    \/ \E c \in {First, Second}, which \in {"input", "output"} : UnlinkDone(c, which)

SpecPair == Init /\ [][NextPair]_vars

\* One call of render_mermaid whose diagram is any text of at most MaxLen
\* characters, followed up to the write of the input file.  The request the
\* client is about to send is held in req from the start.
InitExtract ==
    /\ now = 0
    /\ pc = [c \in Calls |-> "idle"]
    /\ \E diagram \in AllDiagrams, isMarkdown \in BOOLEAN :
         req = [c \in Calls |->
                  IF c = First
                  THEN [tool |-> "render_mermaid", diagram |-> diagram,
                        format |-> "svg", isMarkdown |-> isMarkdown]
                  ELSE NoRequest]
    /\ loc = [c \in Calls |-> NoLocals]
    /\ pending = [c \in Calls |-> {}]
    /\ unlinkCalls = [c \in Calls |-> [input |-> 0, output |-> 0]]
    /\ reply = [c \in Calls |-> NoReply]
    /\ fs = <<>>
    /\ touched = {}
    /\ stdoutWrite = RealWrite("stdout")
    /\ stderrWrite = RealWrite("stderr")

NextExtract ==
    \/ Start(First, req[First])
    \/ WriteDone(First)

SpecExtract == InitExtract /\ [][NextExtract]_vars

(* ------------------------- C8: the staged text ------------------------- *)
\* The first position of the opening marker in d.
MarkerAt(d) == IndexOf(d, MermaidMarker)

\* The positions of d, after its first opening marker, where a fence starts.
FencesAfterMarker(d) ==
    { j \in (MarkerAt(d) + Len(MermaidMarker))..Len(d) : MatchAt(d, Fence, j) }

\* The least element of a non-empty set of positions.
Least(S) == CHOOSE j \in S : \A k \in S : j <= k

\* t is s without the white space at its two ends.
IsTrimOf(t, s) ==
    LET solid == { k \in 1..Len(s) : ~IsSpace(s[k]) } IN
    IF solid = {} THEN t = <<>>
    ELSE t = SubSeq(s, Least(solid), CHOOSE k \in solid : \A m \in solid : m <= k)

\* The text the claim says is written: the diagram itself, or the trimmed
\* text between the first marker and the next fence after it.
IsClaimedText(t, d, isMarkdown) ==
    IF ~isMarkdown \/ MarkerAt(d) = 0 THEN t = d
    ELSE /\ FencesAfterMarker(d) # {}
         /\ IsTrimOf(t, SubSeq(d, MarkerAt(d) + Len(MermaidMarker),
                               Least(FencesAfterMarker(d)) - 1))

\* Where the body of the first block starts: right after its marker.
BodyStart(d) == MarkerAt(d) + Len(MermaidMarker)

\* The start of the next opening marker after the first one, or the position
\* after the end of d when there is none.
NextMarker(d) ==
    LET later == { e \in BodyStart(d)..Len(d) : MatchAt(d, MermaidMarker, e) } IN
    IF later = {} THEN Len(d) + 1 ELSE Least(later)

\* The fences that lie wholly between the first marker and NextMarker(d).
FencesInBody(d) ==
    { j \in BodyStart(d)..(NextMarker(d) - Len(Fence)) : MatchAt(d, Fence, j) }

\* The same with the two cases the claim leaves out: the body ends at the
\* first fence that lies wholly before the next opening marker, else at that
\* next marker, else at the end of the diagram.
IsAmendedText(t, d, isMarkdown) ==
    IF ~isMarkdown \/ MarkerAt(d) = 0 THEN t = d
    ELSE IF FencesInBody(d) # {}
    THEN IsTrimOf(t, SubSeq(d, BodyStart(d), Least(FencesInBody(d)) - 1))
    ELSE IsTrimOf(t, SubSeq(d, BodyStart(d), NextMarker(d) - 1))

\* The call has written its input file and nothing has replaced it.
Staged(c) ==
    /\ pc[c] = "render"
    /\ Exists(loc[c].inputPath)
    /\ fs[loc[c].inputPath].owner = c

\* C8 as stated: the text written to the input file is the diagram unchanged
\* when isMarkdown is false or the diagram has no opening marker, and
\* otherwise the trimmed text strictly between the first opening marker and
\* the next fence after it.  It fails for a block that is never closed, and
\* for a block followed by four backticks and the word mermaid.
C8_WrittenTextAsClaimed ==
    \A c \in Calls :
        Staged(c) =>
            /\ fs[loc[c].inputPath].data.enc = "utf8"
            /\ IsClaimedText(fs[loc[c].inputPath].data.text,
                             req[c].diagram, req[c].isMarkdown)

\* C8 amended: the text written to the input file is the diagram unchanged
\* when isMarkdown is false or the diagram has no opening marker; otherwise
\* it is the trimmed text that starts right after the first opening marker
\* and ends before the first fence lying wholly before the next opening
\* marker, or, when there is no such fence, at that next opening marker, or,
\* when there is none either, at the end of the diagram.
C8_WrittenText ==
    \A c \in Calls :
        Staged(c) =>
            /\ fs[loc[c].inputPath].data.enc = "utf8"
            /\ IsAmendedText(fs[loc[c].inputPath].data.text,
                             req[c].diagram, req[c].isMarkdown)

\* A closed fenced block whose body starts with white space has been staged
\* as its bare body.
C8_Witness ==
    /\ Staged(First)
    /\ req[First].isMarkdown
    /\ req[First].diagram = MermaidMarker \o <<" ", "M">> \o Fence
    /\ fs[loc[First].inputPath].data.text = <<"M">>

(* ---------------------- C1, C6: cleanup of the pair -------------------- *)
Done(c) == pc[c] = "done"
Succeeded(c) == Done(c) /\ loc[c].failedAt = "none"

\* C1 as stated: once a call has completed, by a reply or by a failure at
\* the write, the render or the read, neither its input path nor its output
\* path exists in the temporary directory.
C1_NoStagedFileAfterCall ==
    \A c \in Calls :
        Done(c) => ~Exists(loc[c].inputPath) /\ ~Exists(loc[c].outputPath)

\* C6 as stated: every completed call has called the deletion of its input
\* path exactly once and of its output path exactly once, also when the
\* write, the render or the read failed.
C6_UnlinkOncePerPath ==
    \A c \in Calls :
        Done(c) => unlinkCalls[c] = [input |-> 1, output |-> 1]

(* ------------------------ C2, C3, C9: the replies ---------------------- *)
\* C2: a completed dryrun_mermaid call has returned (never thrown) exactly
\* one text block, whose JSON is {status: "ok"} when write, render and read
\* all succeeded and {status: "failed", message} when one of them failed.
C2_DryrunAlwaysReturns ==
    \A c \in Calls :
        (Done(c) /\ req[c].tool = "dryrun_mermaid") =>
            /\ reply[c].kind = "result"
            /\ Len(reply[c].content) = 1
            /\ reply[c].content[1].type = "text"
            /\ IF loc[c].failedAt = "none"
               THEN reply[c].content[1].text = JsonStringify([status |-> "ok"])
               ELSE /\ DOMAIN reply[c].content[1].text.json = {"status", "message"}
                    /\ reply[c].content[1].text.json.status = "failed"

\* A dryrun_mermaid call whose engine rejected with a value that is no Error
\* has returned a failed status.
C2_Witness ==
    \E c \in Calls :
        /\ Done(c)
        /\ req[c].tool = "dryrun_mermaid"
        /\ loc[c].failedAt = "render"
        /\ ~loc[c].thrown.isError
        /\ reply[c].kind = "result"
        /\ reply[c].content[1].text.json.status = "failed"

\* C3: a completed render_mermaid call has returned a content payload only
\* if write, render and read all succeeded; if one of them failed it has
\* thrown one error and returned nothing, and the error's message is the
\* prefix followed by the message of the value thrown, or by the placeholder
\* when that value is no Error.
C3_RenderFailsAsOneError ==
    \A c \in Calls :
        (Done(c) /\ req[c].tool = "render_mermaid") =>
            IF loc[c].failedAt = "none"
            THEN reply[c].kind = "result"
            ELSE /\ reply[c].kind = "error"
                 /\ DOMAIN reply[c] = {"kind", "message"}
                 /\ reply[c].message =
                      <<ErrorPrefix,
                        IF loc[c].thrown.isError THEN loc[c].thrown.message
                        ELSE UnknownErrorPlaceholder>>

\* A render_mermaid call whose engine rejected with a value that is no Error
\* has thrown the prefixed placeholder.
C3_Witness ==
    \E c \in Calls :
        /\ Done(c)
        /\ req[c].tool = "render_mermaid"
        /\ loc[c].failedAt = "render"
        /\ ~loc[c].thrown.isError
        /\ reply[c] = [kind |-> "error",
                       message |-> <<ErrorPrefix, UnknownErrorPlaceholder>>]

\* C9: a render_mermaid call that succeeded has returned exactly one block:
\* for png an image block of type image/png holding the base64 of the
\* artifact it read; for pdf a resource block of type application/pdf holding
\* that base64 and the URI <timestamp>.pdf, the timestamp being the key of
\* the call's two staged paths; for svg a text block holding the artifact
\* decoded as UTF-8.
C9_SuccessfulReplyShape ==
    \A c \in Calls :
        (Succeeded(c) /\ req[c].tool = "render_mermaid") =>
            /\ reply[c].kind = "result"
            /\ Len(reply[c].content) = 1
            /\ loc[c].output.artifact = req[c].format
            /\ LET block == reply[c].content[1] IN
               IF req[c].format = "png"
               THEN block = [type |-> "image", mimeType |-> "image/png",
                             data |-> Base64(loc[c].output)]
               ELSE IF req[c].format = "pdf"
               THEN /\ block.type = "resource"
                    /\ DOMAIN block = {"type", "resource"}
                    /\ block.resource.mimeType = "application/pdf"
                    /\ block.resource.blob = Base64(loc[c].output)
                    /\ block.resource.uri.ext = "pdf"
                    /\ block.resource.uri.name = loc[c].inputPath.key
                    /\ block.resource.uri.name = loc[c].outputPath.key
               ELSE block = [type |-> "text", text |-> Utf8Decode(loc[c].output)]

\* A pdf has been returned after the clock moved on from the call's key.
C9_Witness ==
    \E c \in Calls :
        /\ Succeeded(c)
        /\ req[c].tool = "render_mermaid"
        /\ req[c].format = "pdf"
        /\ now # loc[c].timestamp
        /\ reply[c].content[1].resource.uri = PdfUri(loc[c].timestamp)

(* --------------------- C4: colliding timestamps ------------------------ *)
Arrived(c) == pc[c] # "idle"
PathsOf(c) == {loc[c].inputPath, loc[c].outputPath}

\* C4: two calls with the same timestamp have the same input path, and the
\* same output path when their formats are equal; two calls with different
\* timestamps share no path, and no call has read, overwritten or deleted a
\* file written by a call with another timestamp; a call that shares its
\* timestamp with no other call has read the artifact of its own text.
C4_PathsCollideOnlyOnTimestamp ==
    /\ \A a, b \in Calls :
         (Arrived(a) /\ Arrived(b) /\ a # b) =>
            IF loc[a].timestamp = loc[b].timestamp
            THEN /\ loc[a].inputPath = loc[b].inputPath
                 /\ (req[a].format = req[b].format =>
                        loc[a].outputPath = loc[b].outputPath)
            ELSE PathsOf(a) \cap PathsOf(b) = {}
    /\ \A t \in touched : loc[t[1]].timestamp = loc[t[2]].timestamp
    /\ \A a \in Calls :
         (/\ Arrived(a)
          /\ loc[a].output # NoBytes
          /\ \A b \in Calls \ {a} :
                Arrived(b) => loc[b].timestamp # loc[a].timestamp)
            => loc[a].output =
                 Artifact(req[a].format,
                          Utf8Encode(Extract(req[a].diagram, req[a].isMarkdown)))

\* The interleaving the claim names: two calls took the same timestamp, one
\* has returned the artifact of the other's diagram, and the other has
\* failed because the first one's cleanup deleted the input file it needed.
C4_Witness ==
    \E a, b \in Calls :
        /\ a # b
        /\ Done(a) /\ Done(b)
        /\ loc[a].timestamp = loc[b].timestamp
        /\ loc[a].failedAt = "none"
        /\ reply[a].kind = "result"
        /\ loc[a].output.of = Extract(req[b].diagram, req[b].isMarkdown)
        /\ loc[a].output.of # Extract(req[a].diagram, req[a].isMarkdown)
        /\ loc[b].failedAt = "render"
        /\ loc[b].thrown = Error("ENOENT")
        /\ <<a, b>> \in touched

(* ---------------------- C5, C7, C10: the two streams ------------------- *)
Rendering(c) == pc[c] = "render"

\* C5 as stated: while the engine runs for any call, process.stdout.write
\* and process.stderr.write are no-op functions, also when renders overlap.
C5_SilentWhileRendering ==
    (\E c \in Calls : Rendering(c)) =>
        stdoutWrite.fn = "noop" /\ stderrWrite.fn = "noop"

\* C10 as stated: whenever no render is in flight, process.stdout.write and
\* process.stderr.write are the real write functions of before the first
\* render.
C10_RealWhenNoRender ==
    (\A c \in Calls : ~Rendering(c)) =>
        stdoutWrite = RealWrite("stdout") /\ stderrWrite = RealWrite("stderr")

\* C7: render captures the two write functions on entry, before it installs
\* its no-ops, and on every exit, by return or by exception, the two slots
\* hold again the functions it captured.
C7_RestoresWhatItCaptured ==
    [][\A c \in Calls :
         /\ (pc[c] = "write" /\ pc'[c] = "render") =>
               /\ loc'[c].originalStdout = stdoutWrite
               /\ loc'[c].originalStderr = stderrWrite
               /\ stdoutWrite' = NoOp("stdout", c)
               /\ stderrWrite' = NoOp("stderr", c)
         /\ (pc[c] = "render" /\ pc'[c] # "render") =>
               /\ stdoutWrite' = loc[c].originalStdout
               /\ stderrWrite' = loc[c].originalStderr]_vars

\* A render has exited by an exception of the engine while no other call
\* had arrived, and both slots hold the real functions again.
C7_Witness ==
    \E c \in Calls :
        /\ Done(c)
        /\ loc[c].failedAt = "render"
        /\ loc[c].thrown = Error("render failed")
        /\ \A d \in Calls \ {c} : ~Arrived(d)
        /\ stdoutWrite = RealWrite("stdout")
        /\ stderrWrite = RealWrite("stderr")

====
